---- MODULE Spec2Model ----
(***************************************************************************)
(* The retrieval engine of the RAG chatbot (src/utils/retrieval.py,        *)
(* class VectorDB): construction with an optional load of the persisted    *)
(* pair index.faiss / metadata.pkl, add_documents (reuse or ingest, embed, *)
(* build, save) and query.                                                 *)
(*                                                                         *)
(* The file system is part of the state: the documents directory           *)
(* (Config.DOCUMENTS_PATH) and the two artifacts under                     *)
(* Config.VECTOR_DB_PATH.  Collaborators whose code is outside the engine  *)
(* (the sentence-transformer, faiss, pickle, the disk) are modelled by     *)
(* their outcomes: a call succeeds or raises, chosen nondeterministically. *)
(*                                                                         *)
(* The chat layer (src/app.py) is modelled on top of the engine: one run   *)
(* of the Streamlit script (main with initialize_components), the handler  *)
(* of a chat prompt (retrieve_documents and the reply) and the context     *)
(* formatting (generate_context).                                          *)
(*                                                                         *)
(* The two collaborators of the engine and of the chat layer are modelled  *)
(* on their own: FileProcessor.process_file (src/file_processor.py) applied*)
(* to one file, and the retry loop of ResponseGenerator.generate           *)
(* (src/utils/generation.py), one loop iteration per step.                 *)
(***************************************************************************)
EXTENDS Integers, Sequences, FiniteSets, TLC

\* ------------------------------------------------------------------ bounds

\* files in the documents directory
MaxFiles == 2
\* documents in a retrieval result handed to generate_context
MaxContextDocs == 2
\* cap on len(self.documents): the code never clears the list, so repeated
\* failed builds grow it without limit
MaxDocs == 3
\* the largest max_retries a generate call is given
MaxRetries == 5

\* ------------------------------------------------------- program constants

\* self.embedding_dim = 384
embedding_dim == 384
\* query(self, query_text, k: int = 3)
DefaultK == 3
\* generate: time.sleep(min(2 ** attempt, 5))
BackoffCap == 5
\* output dimension of an embedding model other than the 384-dimensional one
OtherDim == embedding_dim + 1
\* generate_context: text[:1500]
ContextChars == 1500

\* Python's None, as the value of self.index
None == [none |-> TRUE]

VARIABLES
  dir,          \* os.listdir(Config.DOCUMENTS_PATH): sequence of files
  modelDim,     \* output dimension of SentenceTransformer(Config.EMBEDDING_MODEL)
  diskIndex,    \* Config.VECTOR_DB_PATH/index.faiss
  diskMeta,     \* Config.VECTOR_DB_PATH/metadata.pkl
  constructed,  \* a VectorDB object exists
  index,        \* self.index
  documents,    \* self.documents
  metadata,     \* self.metadata
  op,           \* the last call on the engine and what it was observed to do
  loaded,       \* history: the constructor's _load_index completed without error
  established,  \* history: a build or a load of this object has succeeded
  app,          \* the last step of the chat layer and what it was observed to do
  processor,    \* a FileProcessor.process_file call: its file and what it did
  generator     \* a ResponseGenerator.generate call: its inputs and progress

vars == <<dir, modelDim, diskIndex, diskMeta, constructed, index, documents,
          metadata, op, loaded, established, app, processor, generator>>

\* ------------------------------------------------------------- data values

Min(a, b) == IF a <= b THEN a ELSE b

\* What FileProcessor.process_file does with one file of the directory:
\*   "text"  returns a non-empty string
\*   "empty" returns ""
\*   "none"  returns None (missing, unsupported extension, extractor failed)
\*   "raise" raises (extract_text_from_txt only catches UnicodeDecodeError)
Outcomes == {"text", "empty", "none", "raise"}

\* The text extracted from file `name` of the documents directory; len is its
\* length in characters (file 1 has exactly ContextChars characters, a file
\* with a higher name has more).
TextOf(name) == [file |-> name, rev |-> 1, len |-> ContextChars + name - 1]

\* The text an earlier run extracted from file `name` (an older, short
\* revision).
StoredTextOf(name) == [file |-> name, rev |-> 0, len |-> name]

\* The directory listings: up to MaxFiles files, the i-th entry named i.
Dirs ==
  UNION { { [i \in 1..n |-> [name |-> i, out |-> o[i]]] : o \in [1..n -> Outcomes] }
          : n \in 0..MaxFiles }

Absent == [state |-> "absent"]
Corrupt == [state |-> "corrupt"]

\* a flat L2 index: dimension and the stored vectors, in insertion order
FlatIndex(d, vecs) == [d |-> d, vecs |-> vecs]

ntotal(idx) == Len(idx.vecs)

\* a readable index.faiss holding idx
IndexFile(idx) == [state |-> "ok", index |-> idx]

\* a readable metadata.pkl holding the tuple (documents, metadata)
MetaFile(docs, meta) == [state |-> "ok", documents |-> docs, metadata |-> meta]

\* the generation of n documents an earlier run persisted
StoredIndex(n) == FlatIndex(embedding_dim, [i \in 1..n |-> i])
StoredDocs(n) == [i \in 1..n |-> StoredTextOf(i)]
StoredMeta(n) == [i \in 1..n |-> [source |-> i]]

\* the sizes of the generations found on disk when the program starts
StoredSizes == {0, 1, 2}

InitIndexFiles ==
  {Absent, Corrupt} \cup { IndexFile(StoredIndex(n)) : n \in StoredSizes }

InitMetaFiles ==
  {Absent, Corrupt}
    \cup { MetaFile(StoredDocs(n), StoredMeta(n)) : n \in StoredSizes }

EmptyResult == [documents |-> <<>>, metadatas |-> <<>>]

\* the observation record of a call
\*   name       the method called
\*   ret        "True"/"False"/"ok"/"result", or "raise" for an exception
\*   path       the branch the call took
\*   extracted  number of process_file calls
\*   embeds     number of embedder.encode calls
\*   writes     the artifacts the call wrote to
\*   result     query's returned dict
\*   fault      the exception raised inside query's try block, "none" if none
\*   searched   index.search ran to completion
\*   k          the k the caller passed to query
\*   text       the query text whose embedding went into index.search (0 when
\*              the call did not search)
Obs(name, ret, path, extracted, embeds, writes, result, fault, searched, k) ==
  [name |-> name, ret |-> ret, path |-> path, extracted |-> extracted,
   embeds |-> embeds, writes |-> writes, result |-> result,
   fault |-> fault, searched |-> searched, k |-> k, text |-> 0]

NoOp == Obs("none", "none", "none", 0, 0, {}, EmptyResult, "none", FALSE, 0)

\* the observation record of a step of the chat layer
\*   name       "main" (one run of the script), "chat_input" (the handler of a
\*              prompt), "retrieved" (a retrieval result about to be
\*              formatted) or "generate_context"
\*   prompt     the prompt the user typed, 0 when there is none
\*   initFault  the exception raised inside initialize_components, or "none"
\*   stopped    st.stop() ended the run
\*   fault      the exception raised by the call vector_db.query(...), or "none"
\*   queried    the call vector_db.query(...) was made
\*   generated  generator.generate was called
\*   shown      what the assistant's chat message shows
\*   retrieved  what retrieve_documents returned
\*   context    what generate_context returned
NoApp ==
  [name |-> "none", prompt |-> 0, initFault |-> "none", stopped |-> FALSE,
   fault |-> "none", queried |-> FALSE, generated |-> FALSE, shown |-> "none",
   retrieved |-> None, context |-> <<>>]

\* the record of a process_file call
\*   name       "none", "file" (a path about to be processed) or
\*              "process_file"
\*   file       the file at the path
\*   ret        what the call returned: "text" (a non-empty string), "empty"
\*              (""), "none" (None), or "raise" for an exception
\*   extractor  the format-specific extractor the call invoked, or "none"
\*   reads      the encodings the file was opened with, in order
NoFile ==
  [name |-> "none", file |-> None, ret |-> "none", extractor |-> "none",
   reads |-> <<>>]

\* the record of a generate call
\*   name         "none", "generate" (inside the call) or "returned"
\*   max_retries  the argument max_retries
\*   attempt      the loop variable: the 0-based number of the next attempt
\*   calls        number of model.generate_content calls so far
\*   outcomes     what each attempt so far did: "raise" (an exception inside
\*                the try block), "empty" (a response without text) or
\*                "text" (a response with text, validated and returned)
\*   waits        for each attempt so far, the seconds slept after it (0: no
\*                time.sleep call)
\*   ret          what the call returned: a member of GenerateOutcomes, or
\*                "raise" for an exception that left the call
NoGen ==
  [name |-> "none", max_retries |-> 0, attempt |-> 0, calls |-> 0,
   outcomes |-> <<>>, waits |-> <<>>, ret |-> "none"]

\* ------------------------------------------------------------------- Init

Init ==
  /\ dir \in Dirs
  /\ modelDim \in {embedding_dim, OtherDim}
  /\ diskIndex \in InitIndexFiles
  /\ diskMeta \in InitMetaFiles
  /\ constructed = FALSE
  /\ index = None
  /\ documents = <<>>
  /\ metadata = <<>>
  /\ op = NoOp
  /\ loaded = FALSE
  /\ established = FALSE
  /\ app = NoApp
  /\ processor = NoFile
  /\ generator = NoGen

\* ------------------------------------------------------------ persistence

\* _index_exists with any() in place of all()
_index_exists_Any == diskIndex.state # "absent" \/ diskMeta.state # "absent"

\* VectorDB._index_exists: both artifacts are present (os.path.exists)
_index_exists == diskIndex.state # "absent" /\ diskMeta.state # "absent"

\* What can go wrong reading an artifact that is intact on disk.
ReadFaults == {"none", "index", "meta"}

\* _load_index whose except branch does not reset self.index
_load_index_KeepsIndex(docs0, meta0, fault) ==
  IF diskIndex.state # "ok" \/ fault = "index"
  THEN [index |-> None, documents |-> docs0, metadata |-> meta0, ok |-> FALSE]
  ELSE IF diskMeta.state # "ok" \/ fault = "meta"
  THEN [index |-> diskIndex.index, documents |-> docs0, metadata |-> meta0,
        ok |-> FALSE]
  ELSE [index |-> diskIndex.index, documents |-> diskMeta.documents,
        metadata |-> diskMeta.metadata, ok |-> TRUE]

\* VectorDB._load_index on fields docs0/meta0: the new (index, documents,
\* metadata) and whether the try block completed.  faiss.read_index runs first
\* and assigns self.index; pickle.load then assigns documents and metadata
\* together; any exception resets self.index to None and nothing else.
_load_index(docs0, meta0, fault) ==
  IF diskIndex.state # "ok" \/ fault = "index"
  THEN [index |-> None, documents |-> docs0, metadata |-> meta0, ok |-> FALSE]
  ELSE IF diskMeta.state # "ok" \/ fault = "meta"
  THEN [index |-> None, documents |-> docs0, metadata |-> meta0, ok |-> FALSE]
  ELSE [index |-> diskIndex.index, documents |-> diskMeta.documents,
        metadata |-> diskMeta.metadata, ok |-> TRUE]

\* How a save can end: both files written, or an exception at one of the
\* four places a write can fail.  Opening a file for writing leaves it
\* untouched when the open fails and truncates it when the open succeeds.
SaveOutcomes == {"ok", "index_open", "index_write", "meta_open", "meta_write"}

\* _save_index whose except branch logs the error and does not re-raise
_save_index_Swallows(idx, docs, meta, save) ==
  CASE save = "index_open" ->
         [raised |-> FALSE, diskIndex |-> diskIndex, diskMeta |-> diskMeta,
          writes |-> {}]
    [] save = "index_write" ->
         [raised |-> FALSE, diskIndex |-> Corrupt, diskMeta |-> diskMeta,
          writes |-> {"index"}]
    [] save = "meta_open" ->
         [raised |-> FALSE, diskIndex |-> IndexFile(idx), diskMeta |-> diskMeta,
          writes |-> {"index"}]
    [] save = "meta_write" ->
         [raised |-> FALSE, diskIndex |-> IndexFile(idx), diskMeta |-> Corrupt,
          writes |-> {"index", "meta"}]
    [] OTHER ->
         [raised |-> FALSE, diskIndex |-> IndexFile(idx),
          diskMeta |-> MetaFile(docs, meta), writes |-> {"index", "meta"}]

\* VectorDB._save_index: faiss.write_index, then pickle.dump of
\* (documents, metadata); an exception is logged and re-raised.
_save_index(idx, docs, meta, save) ==
  CASE save = "index_open" ->
         [raised |-> TRUE, diskIndex |-> diskIndex, diskMeta |-> diskMeta,
          writes |-> {}]
    [] save = "index_write" ->
         [raised |-> TRUE, diskIndex |-> Corrupt, diskMeta |-> diskMeta,
          writes |-> {"index"}]
    [] save = "meta_open" ->
         [raised |-> TRUE, diskIndex |-> IndexFile(idx), diskMeta |-> diskMeta,
          writes |-> {"index"}]
    [] save = "meta_write" ->
         [raised |-> TRUE, diskIndex |-> IndexFile(idx), diskMeta |-> Corrupt,
          writes |-> {"index", "meta"}]
    [] OTHER ->
         [raised |-> FALSE, diskIndex |-> IndexFile(idx),
          diskMeta |-> MetaFile(docs, meta), writes |-> {"index", "meta"}]

\* -------------------------------------------------------------- embedding

\* self.embedder.encode of one text: a vector of the model's dimension; its
\* position in the embedding space is decided by the file the text is from.
Encode(text) == [d |-> modelDim, v |-> text.file]

\* self.embedder.encode([query_text]): query texts are points of the space.
EncodeQuery(query_text) == [d |-> modelDim, v |-> query_text]

\* squared Euclidean distance (IndexFlatL2)
Dist(a, b) == (a - b) * (a - b)

\* ------------------------------------------------------------ construction

\* VectorDB.__init__: fresh fields, then _load_index when _index_exists
VectorDB_init ==
  \E fault \in ReadFaults :
    LET tried == _index_exists
        r == IF tried THEN _load_index(<<>>, <<>>, fault)
             ELSE [index |-> None, documents |-> <<>>, metadata |-> <<>>,
                   ok |-> FALSE]
        path == IF ~tried THEN "no_index"
                ELSE IF r.ok THEN "load_ok" ELSE "load_failed"
    IN /\ constructed' = TRUE
       /\ index' = r.index
       /\ documents' = r.documents
       /\ metadata' = r.metadata
       /\ loaded' = r.ok
       /\ established' = r.ok
       /\ op' = Obs("__init__", "ok", path, 0, 0, {}, EmptyResult, "none", FALSE, 0)
       /\ UNCHANGED <<dir, modelDim, diskIndex, diskMeta, app, processor, generator>>

\* ---------------------------------------------------------------- building

\* the files _process_new_documents would keep if it tested
\* `text is not None`: those with a text, empty or not
Extracted_NotNone == SelectSeq(dir, LAMBDA f : f.out \in {"text", "empty"})

\* the files of the listing that pass `if text:`, i.e. whose process_file
\* call yields a non-empty text
Extracted == SelectSeq(dir, LAMBDA f : f.out = "text")

\* _process_new_documents that counts the files it attempted
_process_new_documents_CountsAttempts(docs0, meta0) ==
  LET ext == Extracted
  IN [documents |-> docs0 \o [i \in 1..Len(ext) |-> TextOf(ext[i].name)],
      metadata  |-> meta0 \o [i \in 1..Len(ext) |-> [source |-> ext[i].name]],
      success_count |-> Len(dir),
      calls |-> Len(dir)]

\* _process_new_documents that appends the metadata record of every file it
\* attempts, outside the `if text:` test
_process_new_documents_MetaOfEveryFile(docs0, meta0) ==
  LET ext == Extracted
  IN [documents |-> docs0 \o [i \in 1..Len(ext) |-> TextOf(ext[i].name)],
      metadata  |-> meta0 \o [i \in 1..Len(dir) |-> [source |-> dir[i].name]],
      success_count |-> Len(ext),
      calls |-> Len(dir)]

\* VectorDB._process_new_documents on fields docs0/meta0: every file of the
\* listing is passed to process_file; a truthy text is appended to both lists;
\* an exception is logged and the loop continues.
_process_new_documents(docs0, meta0) ==
  LET ext == Extracted
  IN [documents |-> docs0 \o [i \in 1..Len(ext) |-> TextOf(ext[i].name)],
      metadata  |-> meta0 \o [i \in 1..Len(ext) |-> [source |-> ext[i].name]],
      success_count |-> Len(ext),
      calls |-> Len(dir)]

\* _create_new_index without the check of embeddings.shape[1]
_create_new_index_Unchecked(docs, meta, embedOk, save) ==
  IF ~embedOk
  THEN [raised |-> TRUE, cause |-> "embed", index |-> index,
        diskIndex |-> diskIndex, diskMeta |-> diskMeta, writes |-> {}]
  ELSE LET idx == FlatIndex(modelDim, [i \in 1..Len(docs) |-> Encode(docs[i]).v])
           s == _save_index(idx, docs, meta, save)
       IN [raised |-> s.raised, cause |-> IF s.raised THEN "save" ELSE "none",
           index |-> idx, diskIndex |-> s.diskIndex, diskMeta |-> s.diskMeta,
           writes |-> s.writes]

\* _create_new_index that catches the embedder's exception, logs it and
\* returns
_create_new_index_CatchesEmbed(docs, meta, embedOk, save) ==
  IF ~embedOk
  THEN [raised |-> FALSE, cause |-> "embed", index |-> index,
        diskIndex |-> diskIndex, diskMeta |-> diskMeta, writes |-> {}]
  ELSE IF modelDim # embedding_dim
  THEN [raised |-> TRUE, cause |-> "dimension", index |-> index,
        diskIndex |-> diskIndex, diskMeta |-> diskMeta, writes |-> {}]
  ELSE LET idx == FlatIndex(embedding_dim, [i \in 1..Len(docs) |-> Encode(docs[i]).v])
           s == _save_index(idx, docs, meta, save)
       IN [raised |-> s.raised, cause |-> IF s.raised THEN "save" ELSE "none",
           index |-> idx, diskIndex |-> s.diskIndex, diskMeta |-> s.diskMeta,
           writes |-> s.writes]

\* VectorDB._create_new_index on documents docs: encode all documents, check
\* the dimension, build a fresh IndexFlatL2, add the embeddings, assign
\* self.index, then _save_index.
_create_new_index(docs, meta, embedOk, save) ==
  IF ~embedOk
  THEN [raised |-> TRUE, cause |-> "embed", index |-> index,
        diskIndex |-> diskIndex, diskMeta |-> diskMeta, writes |-> {}]
  ELSE IF modelDim # embedding_dim
  THEN [raised |-> TRUE, cause |-> "dimension", index |-> index,
        diskIndex |-> diskIndex, diskMeta |-> diskMeta, writes |-> {}]
  ELSE LET idx == FlatIndex(embedding_dim, [i \in 1..Len(docs) |-> Encode(docs[i]).v])
           s == _save_index(idx, docs, meta, save)
       IN [raised |-> s.raised, cause |-> IF s.raised THEN "save" ELSE "none",
           index |-> idx, diskIndex |-> s.diskIndex, diskMeta |-> s.diskMeta,
           writes |-> s.writes]

\* add_documents without the early return (every call ingests again)
ReuseExisting_Never == FALSE

\* the guard of add_documents' early return
ReuseExisting == _index_exists /\ Len(documents) > 0

\* VectorDB.add_documents
add_documents ==
  /\ constructed
  /\ IF ReuseExisting
     THEN /\ op' = Obs("add_documents", "True", "reuse", 0, 0, {}, EmptyResult,
                       "none", FALSE, 0)
          /\ established' = TRUE
          /\ UNCHANGED <<index, documents, metadata, diskIndex, diskMeta>>
     ELSE LET p == _process_new_documents(documents, metadata)
          IN /\ Len(p.documents) <= MaxDocs
             /\ documents' = p.documents
             /\ metadata' = p.metadata
             /\ IF p.success_count = 0
                THEN /\ op' = Obs("add_documents", "False", "no_documents",
                                  p.calls, 0, {}, EmptyResult, "none", FALSE, 0)
                     /\ UNCHANGED <<index, diskIndex, diskMeta, established>>
                ELSE \E embedOk \in BOOLEAN, save \in SaveOutcomes :
                       LET c == _create_new_index(p.documents, p.metadata,
                                                  embedOk, save)
                       IN /\ index' = c.index
                          /\ diskIndex' = c.diskIndex
                          /\ diskMeta' = c.diskMeta
                          /\ established' = (established \/ ~c.raised)
                          /\ op' = Obs("add_documents",
                                       IF c.raised THEN "raise" ELSE "True",
                                       IF c.cause # "none" THEN c.cause
                                       ELSE "build",
                                       p.calls, 1, c.writes, EmptyResult,
                                       "none", FALSE, 0)
  /\ UNCHANGED <<dir, modelDim, constructed, loaded, app, processor, generator>>

\* ----------------------------------------------------------------- query

\* the query texts: two points of the embedding space, the second one
\* equidistant from the files named 1 and 3
QueryTexts == {1, 2}

\* the k values callers pass: negative, zero, one and the default
TopKs == {0 - 1, 0, 1, DefaultK}

\* The ways to extend the hit list h by one nearest remaining vector.
NextHits(idx, qe, h) ==
  LET n == ntotal(idx)
      dist(x) == Dist(idx.vecs[x + 1], qe.v)
      rest == { x \in 0..(n - 1) : \A i \in 1..Len(h) : h[i] # x }
  IN { Append(h, x) : x \in { y \in rest : \A z \in rest : dist(y) <= dist(z) } }

\* IndexFlatL2.search(query_embed, k) for 1 <= k <= ntotal: the possible
\* results, each a sequence of k distinct 0-based positions, nearest first;
\* the order among equidistant vectors is the library's choice.
RECURSIVE Search(_, _, _)
Search(idx, qe, k) ==
  IF k = 0 THEN {<<>>}
  ELSE UNION { NextHits(idx, qe, h) : h \in Search(idx, qe, k - 1) }

\* the loop over indices[0]: positions >= 0 are looked up in both lists; a
\* position past the end of either list raises IndexError.  On a failure the
\* lists returned are what `results` held when the exception was raised: the
\* pairs of the earlier hits, and the document of the failing hit when only
\* its metadata lookup raised.
Lookup(hits) ==
  LET valid == SelectSeq(hits, LAMBDA x : x >= 0)
      bad == { i \in 1..Len(valid) :
                 valid[i] + 1 > Len(documents) \/ valid[i] + 1 > Len(metadata) }
      failed == bad # {}
      n == IF failed THEN (CHOOSE i \in bad : \A j \in bad : i <= j) - 1
           ELSE Len(valid)
      nd == IF failed /\ valid[n + 1] + 1 <= Len(documents) THEN n + 1 ELSE n
  IN [failed |-> failed,
      documents |-> [i \in 1..nd |-> documents[valid[i] + 1]],
      metadatas |-> [i \in 1..n |-> metadata[valid[i] + 1]]]

\* query whose except branch returns `results` as the loop left it
QueryOutcomes_ReturnsPartial(query_text, k, embedOk) ==
  IF ~embedOk
  THEN {[ret |-> "result", result |-> EmptyResult, fault |-> "embed",
         searched |-> FALSE]}
  ELSE IF index = None
  THEN {[ret |-> "result", result |-> EmptyResult, fault |-> "no_index",
         searched |-> FALSE]}
  ELSE LET kk == IF ntotal(index) > 0 THEN Min(k, ntotal(index)) ELSE 0
           qe == EncodeQuery(query_text)
       IN IF kk = 0
          THEN {[ret |-> "result", result |-> EmptyResult, fault |-> "none",
                 searched |-> FALSE]}
          ELSE IF kk < 0 \/ qe.d # index.d
          THEN {[ret |-> "result", result |-> EmptyResult, fault |-> "search",
                 searched |-> FALSE]}
          ELSE { LET l == Lookup(h)
                 IN [ret |-> "result",
                     result |-> [documents |-> l.documents,
                                 metadatas |-> l.metadatas],
                     fault |-> IF l.failed THEN "lookup" ELSE "none",
                     searched |-> TRUE]
                 : h \in Search(index, qe, kk) }

\* the clamp that forgets the caller's k
ClampK_IndexCount(k) == ntotal(index)

\* the clamp without its `else 0`: k = min(k, self.index.ntotal)
ClampK_MinOnly(k) == Min(k, ntotal(index))

\* k = min(k, self.index.ntotal) if self.index.ntotal > 0 else 0
ClampK(k) == IF ntotal(index) > 0 THEN Min(k, ntotal(index)) ELSE 0

\* query's except branch: the exception is logged and two empty lists returned
Except(fault, searched) ==
  [ret |-> "result", result |-> EmptyResult, fault |-> fault,
   searched |-> searched]

\* a return of query's try block
Return(result, searched) ==
  [ret |-> "result", result |-> result, fault |-> "none", searched |-> searched]

\* query that checks the index before entering the try block and raises
\* ValueError("Index not initialized")
QueryOutcomes_RaisesOnNoIndex(query_text, k, embedOk) ==
  IF index = None
  THEN {[ret |-> "raise", result |-> EmptyResult, fault |-> "no_index",
         searched |-> FALSE]}
  ELSE IF ~embedOk THEN {Except("embed", FALSE)}
  ELSE LET kk == ClampK(k)
           qe == EncodeQuery(query_text)
       IN IF kk = 0 THEN {Return(EmptyResult, FALSE)}
          ELSE IF kk < 0 \/ qe.d # index.d THEN {Except("search", FALSE)}
          ELSE { LET l == Lookup(h)
                 IN IF l.failed THEN Except("lookup", TRUE)
                    ELSE Return([documents |-> l.documents,
                                 metadatas |-> l.metadatas], TRUE)
                 : h \in Search(index, qe, kk) }

\* query as its earlier revision filtered the hits: a hit is kept only when
\* its distance is below a threshold (here: only an exact match passes)
QueryOutcomes_Threshold(query_text, k, embedOk) ==
  IF ~embedOk THEN {Except("embed", FALSE)}
  ELSE IF index = None THEN {Except("no_index", FALSE)}
  ELSE LET kk == ClampK(k)
           qe == EncodeQuery(query_text)
       IN IF kk = 0 THEN {Return(EmptyResult, FALSE)}
          ELSE IF kk < 0 \/ qe.d # index.d THEN {Except("search", FALSE)}
          ELSE { LET l == Lookup(SelectSeq(h,
                               LAMBDA x : Dist(index.vecs[x + 1], qe.v) < 1))
                 IN IF l.failed THEN Except("lookup", TRUE)
                    ELSE Return([documents |-> l.documents,
                                 metadatas |-> l.metadatas], TRUE)
                 : h \in Search(index, qe, kk) }

\* VectorDB.query(query_text, k): the possible outcomes.  The whole body is
\* inside the try block: a failing encode, the attribute access on a None
\* index, a failing search (non-positive k, wrong dimension) and an IndexError
\* of the lookups all reach the except branch.
QueryOutcomes(query_text, k, embedOk) ==
  IF ~embedOk THEN {Except("embed", FALSE)}
  ELSE IF index = None THEN {Except("no_index", FALSE)}
  ELSE LET kk == ClampK(k)
           qe == EncodeQuery(query_text)
       IN IF kk = 0 THEN {Return(EmptyResult, FALSE)}
          ELSE IF kk < 0 \/ qe.d # index.d THEN {Except("search", FALSE)}
          ELSE { LET l == Lookup(h)
                 IN IF l.failed THEN Except("lookup", TRUE)
                    ELSE Return([documents |-> l.documents,
                                 metadatas |-> l.metadatas], TRUE)
                 : h \in Search(index, qe, kk) }

\* VectorDB.query
query ==
  /\ constructed
  /\ \E query_text \in QueryTexts, k \in TopKs, embedOk \in BOOLEAN :
       \E r \in QueryOutcomes(query_text, k, embedOk) :
         op' = [Obs("query", r.ret,
                    IF r.fault = "none" THEN "return" ELSE "except",
                    0, 1, {}, r.result, r.fault, r.searched, k)
                  EXCEPT !.text = IF r.searched THEN query_text ELSE 0]
  /\ UNCHANGED <<dir, modelDim, diskIndex, diskMeta, constructed, index,
                 documents, metadata, loaded, established, app, processor, generator>>

\* ------------------------------------------------------------- chat layer

\* A piece of literal text of a formatted string.
Lit(str) == [lit |-> str]

\* text[:n]: the first n characters of a text
Prefix(text, n) == [text EXCEPT !.len = Min(@, n)]

\* sep.join(parts), parts being sequences of pieces
RECURSIVE Join(_, _)
Join(parts, sep) ==
  IF parts = <<>> THEN <<>>
  ELSE IF Len(parts) = 1 THEN parts[1]
  ELSE parts[1] \o sep \o Join(Tail(parts), sep)

\* meta.get('source', f"Document {i+1}") at the i-th pair (1-based here)
SourceOf(meta, i) ==
  IF "source" \in DOMAIN meta THEN [source |-> meta.source]
  ELSE [document |-> i]

\* generate_context that never appends the "..." marker
generate_context_NoEllipsis(retrieved) ==
  LET n == Min(Len(retrieved.documents), Len(retrieved.metadatas))
      part(i) == << Lit("U+1F4C4 "), SourceOf(retrieved.metadatas[i], i),
                    Lit(":\n"), Prefix(retrieved.documents[i], ContextChars) >>
  IN Join([i \in 1..n |-> part(i)], << Lit("\n\n") >>)

\* generate_context(retrieved): for every (text, meta) pair of
\* zip(documents, metadatas) the piece f"<page emoji> {source}:\n", the first
\* 1500 characters of the text and "..." when the text is longer; the parts
\* joined by "\n\n".  The result is the sequence of its pieces.
generate_context(retrieved) ==
  LET n == Min(Len(retrieved.documents), Len(retrieved.metadatas))
      part(i) == << Lit("U+1F4C4 "), SourceOf(retrieved.metadatas[i], i),
                    Lit(":\n"), Prefix(retrieved.documents[i], ContextChars) >>
                 \o (IF retrieved.documents[i].len > ContextChars
                     THEN << Lit("...") >> ELSE << >>)
  IN Join([i \in 1..n |-> part(i)], << Lit("\n\n") >>)

\* Python's call binding: every keyword argument of a call must name a
\* parameter of the callee, otherwise the call raises TypeError before the
\* callee's body runs.
Binds(params, keywords) == keywords \subseteq params

\* def __init__(self): no parameter besides self
VectorDB_init_params == {}

\* def query(self, query_text: str, k: int = 3)
query_params == {"query_text", "k"}

\* the methods class VectorDB defines
VectorDB_methods ==
  {"__init__", "_index_exists", "_load_index", "add_documents",
   "_process_new_documents", "_create_new_index", "_save_index", "query"}

\* st.error("System startup failed. Please contact support.")
StartupFailedMessage == "System startup failed. Please contact support."
\* response = "No relevant documents found."
NoDocumentsMessage == "No relevant documents found."
\* st.error("An error occurred. Please try again.")
ChatErrorMessage == "An error occurred. Please try again."

\* What generator.generate returns: a validated answer or one of its two
\* fallback messages.
GenerateOutcomes == {"answer", "system_error", "unavailable"}

\* the prompts a user types (the query texts), 0 standing for no prompt
Prompts == {0} \cup QueryTexts

\* what retrieve_documents returns for the results of the query call: None
\* when results['documents'] is empty, the results otherwise
Retrieved(results) == IF results.documents = <<>> THEN None ELSE results

\* retrieve_documents without its try/except
retrieve_documents_NoTry(prompt, embedOk) ==
  IF ~Binds(query_params, {"top_k"})
  THEN {[fault |-> "TypeError", raised |-> TRUE, retrieved |-> None]}
  ELSE { [fault |-> IF r.ret = "raise" THEN r.fault ELSE "none",
          raised |-> r.ret = "raise",
          retrieved |-> IF r.ret = "raise" THEN None
                        ELSE Retrieved(r.result)]
         : r \in QueryOutcomes(prompt, DefaultK, embedOk) }

\* retrieve_documents(vector_db, query): the possible outcomes of
\*   results = vector_db.query(query, top_k=3)
\* inside try/except Exception.  fault is the exception the call raised,
\* raised tells whether an exception leaves retrieve_documents, retrieved is
\* the value returned: None when the call raised or results['documents'] is
\* empty, the results otherwise.
retrieve_documents(prompt, embedOk) ==
  IF ~Binds(query_params, {"top_k"})
  THEN {[fault |-> "TypeError", raised |-> FALSE, retrieved |-> None]}
  ELSE { [fault |-> IF r.ret = "raise" THEN r.fault ELSE "none",
          raised |-> FALSE,
          retrieved |-> IF r.ret = "raise" THEN None
                        ELSE Retrieved(r.result)]
         : r \in QueryOutcomes(prompt, DefaultK, embedOk) }

\* The body of main's `if prompt := st.chat_input(...)` after the user
\* message is shown, given what retrieve_documents did (rd) and what
\* generator.generate returns (gen): the no-documents reply when retrieved is
\* None, otherwise the context is formatted and the generator's text shown;
\* an exception ends in st.error.
Respond(rd, gen) ==
  IF rd.raised
  THEN [shown |-> ChatErrorMessage, generated |-> FALSE, context |-> <<>>]
  ELSE IF rd.retrieved = None
  THEN [shown |-> NoDocumentsMessage, generated |-> FALSE, context |-> <<>>]
  ELSE [shown |-> gen, generated |-> TRUE,
        context |-> generate_context(rd.retrieved)]

\* initialize_components whose except branch logs the failure and returns
initialize_components_ReturnsOnFailure(configOk, genOk) ==
  IF ~configOk THEN [returned |-> TRUE, fault |-> "ValueError"]
  ELSE IF ~Binds(VectorDB_init_params, {"embedding_model", "db_path", "docs_path"})
  THEN [returned |-> TRUE, fault |-> "TypeError"]
  ELSE IF "load_or_create_index" \notin VectorDB_methods
  THEN [returned |-> TRUE, fault |-> "AttributeError"]
  ELSE IF ~genOk THEN [returned |-> TRUE, fault |-> "RuntimeError"]
  ELSE [returned |-> TRUE, fault |-> "none"]

\* initialize_components(): Config(), then VectorDB(embedding_model=...,
\* db_path=..., docs_path=...), then vector_db.load_or_create_index(), then
\* ResponseGenerator(...), all inside try/except Exception whose handler
\* calls st.error and st.stop().  returned tells whether the function
\* returned (vector_db, generator); fault is the exception raised in the try
\* block.
initialize_components(configOk, genOk) ==
  IF ~configOk THEN [returned |-> FALSE, fault |-> "ValueError"]
  ELSE IF ~Binds(VectorDB_init_params, {"embedding_model", "db_path", "docs_path"})
  THEN [returned |-> FALSE, fault |-> "TypeError"]
  ELSE IF "load_or_create_index" \notin VectorDB_methods
  THEN [returned |-> FALSE, fault |-> "AttributeError"]
  ELSE IF ~genOk THEN [returned |-> FALSE, fault |-> "RuntimeError"]
  ELSE [returned |-> TRUE, fault |-> "none"]

\* main(): one run of the Streamlit script.  initialize_components either
\* returns the components or stops the run; a run that goes on handles the
\* prompt, when there is one.
main ==
  /\ \E prompt \in Prompts, configOk \in BOOLEAN, genOk \in BOOLEAN,
        embedOk \in BOOLEAN, gen \in GenerateOutcomes :
       LET init == initialize_components(configOk, genOk)
       IN IF ~init.returned
          THEN app' = [NoApp EXCEPT !.name = "main", !.prompt = prompt,
                                    !.initFault = init.fault,
                                    !.stopped = TRUE,
                                    !.shown = StartupFailedMessage]
          ELSE IF prompt = 0
          THEN app' = [NoApp EXCEPT !.name = "main",
                                    !.initFault = init.fault]
          ELSE \E rd \in retrieve_documents(prompt, embedOk) :
                 LET r == Respond(rd, gen)
                 IN app' = [NoApp EXCEPT !.name = "main", !.prompt = prompt,
                                         !.initFault = init.fault,
                                         !.fault = rd.fault,
                                         !.queried = TRUE,
                                         !.generated = r.generated,
                                         !.shown = r.shown,
                                         !.retrieved = rd.retrieved,
                                         !.context = r.context]
  /\ UNCHANGED <<dir, modelDim, diskIndex, diskMeta, constructed, index,
                 documents, metadata, op, loaded, established,
                 processor, generator>>

\* The handler of a prompt (main, from st.chat_input on) run with a
\* VectorDB object as vector_db.
chat_input ==
  /\ constructed
  /\ \E prompt \in QueryTexts, embedOk \in BOOLEAN, gen \in GenerateOutcomes :
       \E rd \in retrieve_documents(prompt, embedOk) :
         LET r == Respond(rd, gen)
         IN app' = [NoApp EXCEPT !.name = "chat_input", !.prompt = prompt,
                                 !.fault = rd.fault,
                                 !.queried = TRUE,
                                 !.generated = r.generated,
                                 !.shown = r.shown,
                                 !.retrieved = rd.retrieved,
                                 !.context = r.context]
  /\ UNCHANGED <<dir, modelDim, diskIndex, diskMeta, constructed, index,
                 documents, metadata, op, loaded, established,
                 processor, generator>>

\* the texts of a retrieval result: of two files, one character long, of
\* exactly ContextChars characters, one more, and twice as many
ContextTexts ==
  { [file |-> f, rev |-> 1, len |-> n] :
      f \in 1..2,
      n \in {1, ContextChars, ContextChars + 1, ContextChars + ContextChars} }

\* the metadata records of a retrieval result: {'source': name}, or a record
\* without the 'source' key
ContextMetas == { [source |-> f] : f \in 1..2 } \cup { [page |-> 1] }

\* the non-None values retrieve_documents returns: a dict of as many
\* documents as metadata records, at least one
RetrievedInputs ==
  UNION { { [documents |-> d, metadatas |-> m] :
              d \in [1..n -> ContextTexts], m \in [1..n -> ContextMetas] }
          : n \in 1..MaxContextDocs }

\* a retrieval result about to be formatted; no engine is involved
InitContext ==
  /\ dir = <<>>
  /\ modelDim = embedding_dim
  /\ diskIndex = Absent
  /\ diskMeta = Absent
  /\ constructed = FALSE
  /\ index = None
  /\ documents = <<>>
  /\ metadata = <<>>
  /\ op = NoOp
  /\ loaded = FALSE
  /\ established = FALSE
  /\ app \in { [NoApp EXCEPT !.name = "retrieved", !.retrieved = r] :
                r \in RetrievedInputs }
  /\ processor = NoFile
  /\ generator = NoGen

\* context = generate_context(retrieved)
generate_context_call ==
  /\ app.name = "retrieved"
  /\ app' = [app EXCEPT !.name = "generate_context",
                        !.context = generate_context(app.retrieved)]
  /\ UNCHANGED <<dir, modelDim, diskIndex, diskMeta, constructed, index,
                 documents, metadata, op, loaded, established,
                 processor, generator>>

\* ---------------------------------------------------------- file processor

\* str.lower() on the letters that occur in the extensions
LowerOf ==
  [P |-> "p", D |-> "d", F |-> "f", T |-> "t", X |-> "x", O |-> "o",
   C |-> "c", M |-> "m"]

\* file_ext.lower(): every upper-case letter replaced by its lower-case one
lower(ext) ==
  [i \in 1..Len(ext) |-> IF ext[i] \in DOMAIN LowerOf THEN LowerOf[ext[i]]
                         ELSE ext[i]]

\* self.supported_formats = ['.pdf', '.txt', '.docx']
supported_formats ==
  { <<".", "p", "d", "f">>, <<".", "t", "x", "t">>,
    <<".", "d", "o", "c", "x">> }

\* os.path.splitext(file_path)[1] of the paths tried: the supported
\* extensions in lower, upper and mixed case, two unsupported ones (one a
\* prefix of a supported one) and the empty extension
Extensions ==
  supported_formats
    \cup { <<".", "P", "D", "F">>, <<".", "T", "x", "t">>,
           <<".", "D", "O", "C", "X">>, <<".", "d", "o", "c">>,
           <<".", "M", "d">>, <<>> }

\* The file at a path:
\*   exists    os.path.exists(file_path)
\*   ext       os.path.splitext(file_path)[1]
\*   primary   open/read with encoding='utf-8': "ok", "decode_error"
\*             (UnicodeDecodeError) or "os_error" (any other exception, e.g.
\*             PermissionError, IsADirectoryError)
\*   fallback  open/read with encoding='latin-1': "ok" or "os_error"
\*   parse     PdfReader / Document and the text extraction: "ok" or "error"
\*   content   the text the file holds: "text" (non-empty) or "empty"
Files ==
  [exists : BOOLEAN, ext : Extensions,
   primary : {"ok", "decode_error", "os_error"},
   fallback : {"ok", "os_error"}, parse : {"ok", "error"},
   content : {"text", "empty"}]

\* extract_text_from_pdf: everything inside try/except Exception
extract_text_from_pdf(f) ==
  [ret |-> IF f.parse = "ok" THEN f.content ELSE "none",
   extractor |-> "pdf", reads |-> <<>>]

\* extract_text_from_docx: everything inside try/except Exception
extract_text_from_docx(f) ==
  [ret |-> IF f.parse = "ok" THEN f.content ELSE "none",
   extractor |-> "docx", reads |-> <<>>]

\* extract_text_from_txt: the UTF-8 read is guarded by
\* `except UnicodeDecodeError` alone, so any other exception of the primary
\* read leaves the method; the latin-1 read of the handler is guarded by
\* `except Exception` and yields None on failure.
extract_text_from_txt(f) ==
  IF f.primary = "ok"
  THEN [ret |-> f.content, extractor |-> "txt", reads |-> <<"utf-8">>]
  ELSE IF f.primary = "decode_error" /\ f.fallback = "ok"
  THEN [ret |-> f.content, extractor |-> "txt",
        reads |-> <<"utf-8", "latin-1">>]
  ELSE IF f.primary = "decode_error"
  THEN [ret |-> "none", extractor |-> "txt", reads |-> <<"utf-8", "latin-1">>]
  ELSE [ret |-> "raise", extractor |-> "txt", reads |-> <<"utf-8">>]

\* the `processors` dict: the extractor of a supported extension
processors(file_ext, f) ==
  IF file_ext = <<".", "p", "d", "f">> THEN extract_text_from_pdf(f)
  ELSE IF file_ext = <<".", "t", "x", "t">> THEN extract_text_from_txt(f)
  ELSE extract_text_from_docx(f)

\* process_file that compares the extension as it is spelled
process_file_CaseSensitive(f) ==
  IF ~f.exists
  THEN [ret |-> "none", extractor |-> "none", reads |-> <<>>]
  ELSE IF f.ext \notin supported_formats
  THEN [ret |-> "none", extractor |-> "none", reads |-> <<>>]
  ELSE processors(f.ext, f)

\* process_file without the os.path.exists test
process_file_NoExistsCheck(f) ==
  IF lower(f.ext) \notin supported_formats
  THEN [ret |-> "none", extractor |-> "none", reads |-> <<>>]
  ELSE processors(lower(f.ext), f)

\* FileProcessor.process_file: None for a path that does not exist, None for
\* an extension that, lower-cased, is not supported, else what the extractor
\* of the extension does.
process_file(f) ==
  IF ~f.exists
  THEN [ret |-> "none", extractor |-> "none", reads |-> <<>>]
  ELSE IF lower(f.ext) \notin supported_formats
  THEN [ret |-> "none", extractor |-> "none", reads |-> <<>>]
  ELSE processors(lower(f.ext), f)

\* a path about to be processed; no engine is involved
InitFiles ==
  /\ dir = <<>>
  /\ modelDim = embedding_dim
  /\ diskIndex = Absent
  /\ diskMeta = Absent
  /\ constructed = FALSE
  /\ index = None
  /\ documents = <<>>
  /\ metadata = <<>>
  /\ op = NoOp
  /\ loaded = FALSE
  /\ established = FALSE
  /\ app = NoApp
  /\ processor \in { [NoFile EXCEPT !.name = "file", !.file = f] : f \in Files }
  /\ generator = NoGen

\* text = self.processor.process_file(file_path)
process_file_call ==
  /\ processor.name = "file"
  /\ LET r == process_file(processor.file)
     IN processor' = [processor EXCEPT !.name = "process_file",
                                       !.ret = r.ret,
                                       !.extractor = r.extractor,
                                       !.reads = r.reads]
  /\ UNCHANGED <<dir, modelDim, diskIndex, diskMeta, constructed, index,
                 documents, metadata, op, loaded, established, app,
                 generator>>

\* -------------------------------------------------------------- generator

\* what one attempt of generate's loop does
AttemptOutcomes == {"raise", "empty", "text"}

\* the loop body whose except branch re-raises on the last attempt
Attempt_Reraises(g, outcome) ==
  LET tried == [g EXCEPT !.calls = @ + 1, !.outcomes = Append(@, outcome)]
  IN IF outcome = "text"
     THEN [tried EXCEPT !.name = "returned", !.ret = "answer",
                        !.waits = Append(@, 0)]
     ELSE IF outcome = "empty"
     THEN [tried EXCEPT !.attempt = @ + 1, !.waits = Append(@, 0)]
     ELSE IF g.attempt = g.max_retries - 1
     THEN [tried EXCEPT !.name = "returned", !.ret = "raise",
                        !.waits = Append(@, 0)]
     ELSE [tried EXCEPT !.attempt = @ + 1,
                        !.waits = Append(@, Min(2 ^ g.attempt, BackoffCap))]

\* the loop body that remembers a raised exception: it leaves the loop at
\* the last attempt with the system-error message when any attempt raised
Attempt_RemembersError(g, outcome) ==
  LET tried == [g EXCEPT !.calls = @ + 1, !.outcomes = Append(@, outcome)]
      raised == \E i \in 1..Len(tried.outcomes) : tried.outcomes[i] = "raise"
  IN IF outcome = "text"
     THEN [tried EXCEPT !.name = "returned", !.ret = "answer",
                        !.waits = Append(@, 0)]
     ELSE IF g.attempt = g.max_retries - 1 /\ raised
     THEN [tried EXCEPT !.name = "returned", !.ret = "system_error",
                        !.waits = Append(@, 0)]
     ELSE IF outcome = "empty"
     THEN [tried EXCEPT !.attempt = @ + 1, !.waits = Append(@, 0)]
     ELSE [tried EXCEPT !.attempt = @ + 1,
                        !.waits = Append(@, Min(2 ^ g.attempt, BackoffCap))]

\* One iteration of `for attempt in range(max_retries)` in state g:
\*   "text"   generate_content returned a response with text; it is
\*            validated and returned
\*   "empty"  the response has no text: `continue`, without sleeping
\*   "raise"  an exception inside the try block: on the last attempt the
\*            system-error message is returned, otherwise the loop sleeps
\*            min(2 ** attempt, 5) seconds and goes on
Attempt(g, outcome) ==
  LET tried == [g EXCEPT !.calls = @ + 1, !.outcomes = Append(@, outcome)]
  IN IF outcome = "text"
     THEN [tried EXCEPT !.name = "returned", !.ret = "answer",
                        !.waits = Append(@, 0)]
     ELSE IF outcome = "empty"
     THEN [tried EXCEPT !.attempt = @ + 1, !.waits = Append(@, 0)]
     ELSE IF g.attempt = g.max_retries - 1
     THEN [tried EXCEPT !.name = "returned", !.ret = "system_error",
                        !.waits = Append(@, 0)]
     ELSE [tried EXCEPT !.attempt = @ + 1,
                        !.waits = Append(@, Min(2 ^ g.attempt, BackoffCap))]

\* a generate call about to enter its loop; no engine is involved
InitGenerate ==
  /\ dir = <<>>
  /\ modelDim = embedding_dim
  /\ diskIndex = Absent
  /\ diskMeta = Absent
  /\ constructed = FALSE
  /\ index = None
  /\ documents = <<>>
  /\ metadata = <<>>
  /\ op = NoOp
  /\ loaded = FALSE
  /\ established = FALSE
  /\ app = NoApp
  /\ processor = NoFile
  /\ generator \in { [NoGen EXCEPT !.name = "generate", !.max_retries = m] :
                      m \in 0..MaxRetries }

\* one iteration of generate's loop
generate_attempt ==
  /\ generator.name = "generate"
  /\ generator.attempt < generator.max_retries
  /\ \E outcome \in AttemptOutcomes :
       generator' = Attempt(generator, outcome)
  /\ UNCHANGED <<dir, modelDim, diskIndex, diskMeta, constructed, index,
                 documents, metadata, op, loaded, established, app,
                 processor>>

\* the statement after the loop: range(max_retries) is used up
generate_return ==
  /\ generator.name = "generate"
  /\ generator.attempt >= generator.max_retries
  /\ generator' = [generator EXCEPT !.name = "returned",
                                    !.ret = "unavailable"]
  /\ UNCHANGED <<dir, modelDim, diskIndex, diskMeta, constructed, index,
                 documents, metadata, op, loaded, established, app,
                 processor>>

\* ------------------------------------------------------------------- Spec

Next == VectorDB_init \/ add_documents \/ query

Spec == Init /\ [][Next]_vars

\* the runs of the Streamlit script
NextApp == main

SpecApp == Init /\ [][NextApp]_vars

\* a VectorDB object, built or not, serving the handler of chat prompts
NextChat == VectorDB_init \/ add_documents \/ chat_input

SpecChat == Init /\ [][NextChat]_vars

\* generate_context applied to retrieval results
NextContext == generate_context_call

SpecContext == InitContext /\ [][NextContext]_vars

\* process_file applied to the files
NextFiles == process_file_call

SpecFiles == InitFiles /\ [][NextFiles]_vars

\* a generate call
NextGenerate == generate_attempt \/ generate_return

SpecGenerate == InitGenerate /\ [][NextGenerate]_vars

\* a generate call that Python runs on: the interpreter executes the next
\* statement of the loop as long as there is one
SpecGenerateFair == SpecGenerate /\ WF_vars(NextGenerate)

\* ----------------------------------------------------------------- claims

\* both index.faiss and metadata.pkl are present on disk
BothArtifactsPresent ==
  diskIndex.state # "absent" /\ diskMeta.state # "absent"

\* exactly one of the two artifacts is present on disk
ExactlyOneArtifact ==
  (diskIndex.state = "absent") # (diskMeta.state = "absent")

\* the number of files of the directory that yield a non-empty text
NumExtracted == Cardinality({ i \in 1..Len(dir) : dir[i].out = "text" })

\* index.count, taken as 0 while no index is installed
IndexCount == IF index = None THEN 0 ELSE ntotal(index)

\* an add_documents call in a state where the early return is not taken
Ingests == op'.name = "add_documents"
           /\ ~(BothArtifactsPresent /\ Len(documents) > 0)

\* C1: once a build has succeeded (add_documents returned True) or a load
\* has completed without error, index.ntotal == len(documents) ==
\* len(metadata) holds, and keeps holding in every later state.
C1_CountsAgree ==
  established =>
    /\ index # None
    /\ ntotal(index) = Len(documents)
    /\ Len(documents) = Len(metadata)

\* C2: query never raises; whenever the embedder, the index access, the
\* search or a lookup fails, or no index is installed, it returns
\* {'documents': [], 'metadatas': []}.
C2_QueryNeverRaises ==
  op.name = "query" =>
    /\ op.ret = "result"
    /\ (op.fault # "none" \/ index = None) => op.result = EmptyResult

\* C2 witness: a query on an index holding more vectors than there are
\* documents, whose lookup failed and which returned the empty result
C2_Witness ==
  /\ op.name = "query"
  /\ op.fault = "lookup"
  /\ op.result = EmptyResult

\* C3: with both artifacts present and a non-empty loaded store,
\* add_documents returns True, calls neither the extractor nor the embedder,
\* writes neither artifact and leaves index, documents and metadata alone.
C3_ReuseTouchesNothing ==
  [][ (loaded /\ BothArtifactsPresent /\ Len(documents) > 0
         /\ op'.name = "add_documents")
      => /\ op'.ret = "True"
         /\ op'.extracted = 0
         /\ op'.embeds = 0
         /\ op'.writes = {}
         /\ UNCHANGED <<index, documents, metadata, diskIndex, diskMeta>> ]_vars

\* C3 witness: add_documents has returned through the early return on a
\* store that is the one loaded from metadata.pkl
C3_Witness ==
  /\ op.name = "add_documents"
  /\ op.path = "reuse"
  /\ loaded
  /\ Len(documents) > 0
  /\ diskMeta.state = "ok"
  /\ documents = diskMeta.documents

\* C4 (as claimed): for every query text and every topK,
\* len(result.documents) <= min(topK, index.count).
C4_TopKBound ==
  op.name = "query" => Len(op.result.documents) <= Min(op.k, IndexCount)

\* C4 (amended): for every query text and every topK >= 0,
\* len(result.documents) <= min(topK, index.count); for a negative topK the
\* result is empty.
C4_TopKBoundNonNegative ==
  op.name = "query" =>
    /\ op.k >= 0 => Len(op.result.documents) <= Min(op.k, IndexCount)
    /\ op.k < 0 => Len(op.result.documents) = 0

\* C4 witness: a query asking for more documents than the index holds got
\* exactly as many documents as the index holds
C4_Witness ==
  /\ op.name = "query"
  /\ IndexCount > 0
  /\ op.k > IndexCount
  /\ Len(op.result.documents) = IndexCount

\* C5: during a build a file whose extraction fails is skipped and the others
\* are processed; after add_documents has succeeded through a build, the
\* index count equals the number of successfully extracted files.
C5_CountIsExtractedFiles ==
  (op.name = "add_documents" /\ op.path = "build") =>
    /\ op.ret = "True"
    /\ op.extracted = Len(dir)
    /\ index # None
    /\ ntotal(index) = NumExtracted

\* C6: when add_documents ingests and no file of the directory (an empty
\* directory included) yields a text, it returns False, constructs no index
\* and writes neither index.faiss nor metadata.pkl.
C6_NothingExtractedFails ==
  [][ (Ingests /\ NumExtracted = 0)
      => /\ op'.ret = "False"
         /\ op'.embeds = 0
         /\ op'.writes = {}
         /\ UNCHANGED <<index, diskIndex, diskMeta>> ]_vars

\* C6 witness: add_documents has returned False after passing every file of
\* a non-empty directory to the extractor
C6_Witness ==
  /\ op.name = "add_documents"
  /\ op.ret = "False"
  /\ Len(dir) > 0
  /\ op.extracted = Len(dir)

\* C7: a build whose embeddings do not have dimension 384 raises to the
\* caller: no index is installed, nothing is persisted; and an index that
\* add_documents installs only ever holds embeddings of dimension 384.
C7_DimensionMismatchFailsBuild ==
  [][ op'.name = "add_documents"
      => /\ (Ingests /\ NumExtracted > 0 /\ modelDim # embedding_dim)
              => /\ op'.ret = "raise"
                 /\ op'.path \in {"embed", "dimension"}
                 /\ op'.writes = {}
                 /\ UNCHANGED <<index, diskIndex, diskMeta>>
         /\ index' # index
              => modelDim = embedding_dim /\ index'.d = embedding_dim ]_vars

\* C7 witness: add_documents has raised on the dimension check
C7_Witness ==
  /\ op.name = "add_documents"
  /\ op.ret = "raise"
  /\ op.path = "dimension"
  /\ modelDim # embedding_dim

\* when both artifacts are present they are readable and of one generation
PairSameGeneration ==
  BothArtifactsPresent =>
    /\ diskIndex.state = "ok"
    /\ diskMeta.state = "ok"
    /\ ntotal(diskIndex.index) = Len(diskMeta.documents)

\* no artifact on disk, or a readable pair of one generation
CleanDisk ==
  \/ diskIndex.state = "absent" /\ diskMeta.state = "absent"
  \/ BothArtifactsPresent /\ PairSameGeneration

\* C8: the persisted pair is written atomically: no step of the program,
\* a save that fails part-way included, takes a disk that holds nothing or
\* a pair of one generation to a disk on which both artifacts exist without
\* being of the same generation.
C8_PairStaysOneGeneration ==
  [][ CleanDisk => PairSameGeneration' ]_vars

\* the store the ingestion pass yields from documents/metadata
IngestedDocuments ==
  documents \o [i \in 1..Len(Extracted) |-> TextOf(Extracted[i].name)]

\* C9: _index_exists is True only when both artifacts are present; with only
\* one on disk the constructor attempts no load and add_documents performs
\* a full rebuild (every file is passed to the extractor, and a successful
\* call leaves an index over the whole store and both artifacts written).
C9_OneArtifactIsNoIndex ==
  [][ /\ _index_exists <=> BothArtifactsPresent
      /\ ExactlyOneArtifact =>
           /\ op'.name = "__init__"
                => /\ op'.path = "no_index"
                   /\ index' = None
                   /\ documents' = <<>>
                   /\ metadata' = <<>>
                   /\ ~loaded'
           /\ op'.name = "add_documents"
                => /\ op'.path # "reuse"
                   /\ op'.extracted = Len(dir)
                   /\ documents' = IngestedDocuments
                   /\ op'.ret = "True"
                        => /\ ntotal(index') = Len(documents')
                           /\ diskIndex' = IndexFile(index')
                           /\ diskMeta' = MetaFile(documents', metadata') ]_vars

\* C9 witness: add_documents has run the ingestion pass while metadata.pkl
\* was the only artifact on disk (index.faiss is still absent)
C9_Witness ==
  /\ op.name = "add_documents"
  /\ op.extracted = Len(dir)
  /\ Len(dir) > 0
  /\ diskIndex.state = "absent"
  /\ diskMeta.state # "absent"

\* C10: a failed load does not raise out of the constructor and leaves
\* index None and documents and metadata empty, and the add_documents that
\* follows ingests the documents directory instead of reusing anything.
C10_FailedLoadIsNoIndex ==
  [][ (op.name = "__init__" /\ op.path = "load_failed")
      => /\ op.ret = "ok"
         /\ index = None
         /\ documents = <<>>
         /\ metadata = <<>>
         /\ op'.name = "add_documents"
              => /\ op'.path # "reuse"
                 /\ op'.extracted = Len(dir)
                 /\ Len(documents') = NumExtracted ]_vars

\* C10 witness: the constructor's load failed on metadata.pkl after
\* index.faiss had been read
C10_Witness ==
  /\ op.name = "__init__"
  /\ op.path = "load_failed"
  /\ diskIndex.state = "ok"
  /\ diskMeta.state = "corrupt"

\* C11: a failure while writing either artifact during a build propagates
\* out of add_documents as an exception; add_documents returns True after a
\* build only when both artifacts have been written in full, index.faiss
\* from the installed index and metadata.pkl from the store.
C11_SaveFailurePropagates ==
  op.name = "add_documents" =>
    /\ op.path = "save" => op.ret = "raise"
    /\ (op.path # "reuse" /\ op.ret = "True")
         => /\ op.writes = {"index", "meta"}
            /\ index # None
            /\ diskIndex = IndexFile(index)
            /\ diskMeta = MetaFile(documents, metadata)

\* C11 witness: add_documents has raised after index.faiss was written and
\* the write of metadata.pkl failed
C11_Witness ==
  /\ op.name = "add_documents"
  /\ op.ret = "raise"
  /\ op.path = "save"
  /\ op.writes = {"index", "meta"}
  /\ diskMeta.state = "corrupt"

\* C12: when add_documents has returned (True or False) and is called again
\* with the documents directory unchanged, the second call writes neither
\* artifact, leaves index.faiss and metadata.pkl as they were, and leaves
\* the index (hence index.ntotal) and documents (hence len(documents)) as
\* they were after the first call.
C12_SecondCallChangesNothing ==
  [][ (op.name = "add_documents" /\ op.ret \in {"True", "False"}
         /\ op'.name = "add_documents")
      => /\ op'.writes = {}
         /\ op'.ret = op.ret
         /\ UNCHANGED <<index, documents, metadata, diskIndex, diskMeta>> ]_vars

\* C12 witness: add_documents has returned through the early return on the
\* store and index that an earlier call of the same engine built and saved
C12_Witness ==
  /\ op.name = "add_documents"
  /\ op.path = "reuse"
  /\ ~loaded
  /\ index # None
  /\ ntotal(index) = Len(documents)
  /\ diskIndex = IndexFile(index)
  /\ diskMeta = MetaFile(documents, metadata)

\* C13: after any add_documents that runs the ingestion pass, documents
\* and metadata hold exactly one record per file extracted in that pass,
\* whatever they held before the call.
C13_StoreReplacedOnRebuild ==
  (op.name = "add_documents" /\ op.path # "reuse") =>
    /\ documents = [i \in 1..Len(Extracted) |-> TextOf(Extracted[i].name)]
    /\ metadata = [i \in 1..Len(Extracted) |-> [source |-> Extracted[i].name]]

\* C14: after an ingestion pass documents and metadata have the same
\* length and, at every position i, documents[i] is the text extracted from
\* the file named metadata[i]['source']; a file that was skipped or whose
\* extraction failed adds to neither list.
C14_StoreAligned ==
  (op.name = "add_documents" /\ op.path # "reuse") =>
    /\ Len(documents) = Len(metadata)
    /\ \A i \in 1..Len(documents) : documents[i] = TextOf(metadata[i].source)

\* C14 witness: an ingestion pass over a directory whose first file yielded
\* nothing and whose second file was extracted into position 0 of the store
C14_Witness ==
  /\ op.name = "add_documents"
  /\ op.path # "reuse"
  /\ Len(dir) = 2
  /\ dir[1].out # "text"
  /\ dir[2].out = "text"
  /\ Len(documents) >= 1
  /\ metadata[1].source = dir[2].name

\* the installed index holds one vector per document, the i-th being the
\* embedding of documents[i], and metadata is as long as documents
IndexConsistent ==
  /\ index # None
  /\ ntotal(index) = Len(documents)
  /\ Len(metadata) = Len(documents)
  /\ \A i \in 1..Len(documents) : index.vecs[i] = documents[i].file

\* C15: with a consistent non-empty index and topK >= 1, a query whose
\* embedding and search did not fail applies no distance threshold: it returns
\* exactly min(topK, index.count) documents and as many metadata records, in
\* ascending distance from the query with the nearest document of the store
\* first; and the lookup loop skips a slot holding -1 instead of using it as
\* a position of the store.
C15_ReturnsAllNearest ==
  (op.name = "query" /\ IndexConsistent /\ ntotal(index) > 0 /\ op.k >= 1
     /\ op.fault = "none")
  => LET docs == op.result.documents
         n == IF op.k < ntotal(index) THEN op.k ELSE ntotal(index)
         far(t) == Dist(t.file, op.text)
     IN /\ Len(docs) = n
        /\ Len(op.result.metadatas) = n
        /\ \A i \in 1..n : \E j \in 1..Len(documents) :
              docs[i] = documents[j] /\ op.result.metadatas[i] = metadata[j]
        /\ \A i \in 1..(n - 1) : far(docs[i]) <= far(docs[i + 1])
        /\ \A j \in 1..Len(documents) : far(docs[1]) <= far(documents[j])
        /\ Lookup(<<0 - 1>>) = [failed |-> FALSE] @@ EmptyResult
        /\ Lookup(<<0, 0 - 1>>).documents = <<documents[1]>>
        /\ Lookup(<<0 - 1, 0>>).metadatas = <<metadata[1]>>

\* C15 witness: a query for the default k on a consistent index of two
\* vectors returned both documents, the second one farther than the first
C15_Witness ==
  /\ op.name = "query"
  /\ IndexConsistent
  /\ ntotal(index) = 2
  /\ op.k = DefaultK
  /\ Len(op.result.documents) = 2
  /\ Dist(op.result.documents[1].file, op.text)
       < Dist(op.result.documents[2].file, op.text)

\* C16: a query on an engine whose index holds 0 vectors, the embedder
\* having answered, returns {'documents': [], 'metadatas': []} from the try
\* block itself, whatever k was passed: the clamped k is 0, no exception is
\* raised and caught, and index.search is not called.
C16_EmptyIndexReturnsEmpty ==
  (op.name = "query" /\ index # None /\ ntotal(index) = 0
     /\ op.fault # "embed")
  => /\ op.ret = "result"
     /\ op.path = "return"
     /\ op.fault = "none"
     /\ op.result = EmptyResult
     /\ ~op.searched

\* C16 witness: a query with a negative k on an index of 0 vectors has
\* returned through the `if k == 0` return
C16_Witness ==
  /\ op.name = "query"
  /\ index # None
  /\ ntotal(index) = 0
  /\ op.k < 0
  /\ op.path = "return"
  /\ op.result = EmptyResult

\* C18: when embedder.encode fails during a build, add_documents raises to
\* its caller; the call installs no index (self.index stays what it was) and
\* writes neither index.faiss nor metadata.pkl.
C18_EmbedFailurePropagates ==
  [][ (op'.name = "add_documents" /\ op'.path = "embed")
      => /\ op'.ret = "raise"
         /\ op'.writes = {}
         /\ UNCHANGED <<index, diskIndex, diskMeta>> ]_vars

\* C18 witness: add_documents has raised on the embedder's failure after
\* extracting a document; no index is installed and the disk holds nothing
C18_Witness ==
  /\ op.name = "add_documents"
  /\ op.ret = "raise"
  /\ op.path = "embed"
  /\ Len(documents) > 0
  /\ index = None
  /\ diskIndex.state = "absent"
  /\ diskMeta.state = "absent"

\* C17: in a run of the script whose initialize_components raised inside
\* its try block (so returned no engine), st.stop() ends the run: neither
\* vector_db.query nor generator.generate is called, whether or not the user
\* typed a prompt.
C17_NoServingAfterFailedInit ==
  (app.name = "main" /\ app.initFault # "none")
  => /\ app.stopped
     /\ ~app.queried
     /\ ~app.generated
     /\ app.shown = StartupFailedMessage

\* C17 witness: a run with a prompt typed was stopped by the failure of the
\* VectorDB(...) call
C17_Witness ==
  /\ app.name = "main"
  /\ app.initFault = "TypeError"
  /\ app.prompt # 0
  /\ app.stopped
  /\ ~app.queried

\* C19: the handler of a prompt whose retrieval raised inside
\* retrieve_documents, or yielded no documents, shows "No relevant documents
\* found." and does not call the generator; no exception leaves
\* retrieve_documents, so the handler's st.error is not what the user sees.
\* The same holds of the handler's code for a query call that returns two
\* empty lists.
C19_RetrievalFailureIsGraceful ==
  /\ (app.name = "chat_input" /\ (app.fault # "none" \/ app.retrieved = None))
     => /\ app.shown = NoDocumentsMessage
        /\ ~app.generated
  /\ Retrieved(EmptyResult) = None
  /\ \A gen \in GenerateOutcomes :
       Respond([fault |-> "none", raised |-> FALSE,
                retrieved |-> Retrieved(EmptyResult)], gen).shown
         = NoDocumentsMessage

\* C19 witness: a prompt handled with an engine whose index holds documents;
\* the query call raised and the user was shown the no-documents message
C19_Witness ==
  /\ app.name = "chat_input"
  /\ app.fault = "TypeError"
  /\ app.shown = NoDocumentsMessage
  /\ index # None
  /\ ntotal(index) > 0

\* the block the claim describes for the i-th retrieved document
C20_LabelledBlock(retrieved, i) ==
  << Lit("Source: "), SourceOf(retrieved.metadatas[i], i), Lit("\n"),
     Lit("Content: "), Prefix(retrieved.documents[i], ContextChars) >>
  \o (IF retrieved.documents[i].len > ContextChars
      THEN << Lit("...") >> ELSE << >>)

\* the block of the i-th retrieved document: the page emoji and the source
\* followed by a colon, a newline, the first ContextChars characters of the
\* text, and "..." exactly when the text is longer than that
C20_Block(retrieved, i) ==
  << Lit("U+1F4C4 "), SourceOf(retrieved.metadatas[i], i), Lit(":\n"),
     Prefix(retrieved.documents[i], ContextChars) >>
  \o (IF retrieved.documents[i].len > ContextChars
      THEN << Lit("...") >> ELSE << >>)

\* C20 (as claimed): the context consists of one block per retrieved
\* document, each of the form 'Source: <source>' newline 'Content: <text>',
\* the text truncated to a bounded character count and followed by an
\* ellipsis exactly when it was truncated, consecutive blocks separated by a
\* blank line.
C20_ContextLabelled ==
  app.name = "generate_context" =>
    app.context =
      Join([i \in 1..Len(app.retrieved.documents) |->
              C20_LabelledBlock(app.retrieved, i)], << Lit("\n\n") >>)

\* C20 (amended): the context consists of one block per retrieved document,
\* each of the form '<page emoji> <source>:' newline '<text>' (<source> being
\* the metadata's source, or 'Document <n>' when the record has none), the
\* text cut to its first 1500 characters and followed by '...' exactly when
\* it was longer, consecutive blocks separated by a blank line.
C20_ContextBlocks ==
  app.name = "generate_context" =>
    app.context =
      Join([i \in 1..Len(app.retrieved.documents) |->
              C20_Block(app.retrieved, i)], << Lit("\n\n") >>)

\* C20 witness: a context of two blocks, the first text cut and marked with
\* the ellipsis, the second of exactly ContextChars characters and unmarked
C20_Witness ==
  /\ app.name = "generate_context"
  /\ Len(app.retrieved.documents) = 2
  /\ app.retrieved.documents[1].len > ContextChars
  /\ app.retrieved.documents[2].len = ContextChars
  /\ Len(app.context) = 10
  /\ app.context[5] = Lit("...")
  /\ app.context[6] = Lit("\n\n")

\* C24: an add_documents call that follows one that raised returns True only
\* when, on its return, the engine holds an index whose ntotal equals
\* len(documents); it does not report success on leftover documents and
\* artifacts already on disk.
C24_SuccessAfterRaiseHasIndex ==
  [][(/\ op.name = "add_documents" /\ op.ret = "raise"
      /\ op'.name = "add_documents" /\ op'.ret = "True")
     => (index' # None /\ ntotal(index') = Len(documents'))]_vars

\* C26: every result of query has as many documents as metadata records,
\* position by position taken from one stored record; when a lookup fails
\* part-way, the partly filled lists are discarded and two empty lists are
\* returned.
C26_ResultPairsAligned ==
  op.name = "query" =>
    /\ Len(op.result.documents) = Len(op.result.metadatas)
    /\ \A i \in 1..Len(op.result.documents) :
         \E j \in 1..Min(Len(documents), Len(metadata)) :
           /\ op.result.documents[i] = documents[j]
           /\ op.result.metadatas[i] = metadata[j]
    /\ op.fault = "lookup" => op.result = EmptyResult

\* C26 witness: a query whose search ran and whose lookups failed after at
\* least one pair had been appended, answered with the two empty lists
C26_Witness ==
  /\ op.name = "query"
  /\ op.searched
  /\ op.fault = "lookup"
  /\ op.result = EmptyResult
  /\ \E h \in Search(index, EncodeQuery(op.text), ClampK(op.k)) :
       Lookup(h).failed /\ Len(Lookup(h).metadatas) > 0

\* C29: a file whose extraction returns an empty text is treated like a
\* failed file: an ingestion pass appends neither its text nor its metadata
\* record, and a pass over a directory of only such files returns False
\* without embedding anything.
C29_EmptyTextIsSkipped ==
  (op.name = "add_documents" /\ op.path # "reuse") =>
    /\ \A f \in 1..Len(dir) :
         dir[f].out = "empty" =>
           /\ \A i \in 1..Len(documents) : documents[i].file # dir[f].name
           /\ \A i \in 1..Len(metadata) : metadata[i].source # dir[f].name
    /\ (Len(dir) > 0 /\ \A f \in 1..Len(dir) : dir[f].out = "empty")
         => (op.ret = "False" /\ op.embeds = 0)

\* C29 witness: an ingestion pass over a directory of as many files as it
\* can hold, each yielding the empty text, that returned False
C29_Witness ==
  /\ op.name = "add_documents"
  /\ op.path = "no_documents"
  /\ op.ret = "False"
  /\ Len(dir) = MaxFiles
  /\ \A f \in 1..Len(dir) : dir[f].out = "empty"
  /\ op.extracted = Len(dir)

\* C27: in the handler of a prompt generate is called exactly when retrieval
\* returned at least one document, with the context built from the returned
\* documents; and when the index holds documents (and the embedder works
\* and matches the index's dimension) the prompt reaches generate, not the
\* no-documents reply.
C27_PromptReachesGenerate ==
  app.name = "chat_input" =>
    /\ app.generated
         <=> (app.retrieved # None /\ Len(app.retrieved.documents) >= 1)
    /\ app.generated => app.context = generate_context(app.retrieved)
    /\ (IndexConsistent /\ ntotal(index) > 0 /\ index.d = modelDim)
         => \/ app.generated /\ app.shown # NoDocumentsMessage
            \/ app.fault = "embed"

\* the extensions that name a supported format in some spelling of case
C21_SupportedAnyCase ==
  { <<".", "p", "d", "f">>, <<".", "P", "D", "F">>,
    <<".", "t", "x", "t">>, <<".", "T", "x", "t">>,
    <<".", "d", "o", "c", "x">>, <<".", "D", "O", "C", "X">> }

\* C21: process_file returns None, without invoking a format-specific
\* extractor, for every path that does not exist and every path whose
\* extension, compared case-insensitively, is not .pdf, .txt or .docx; every
\* other path is handed to the extractor of its extension.
C21_RejectsBeforeExtraction ==
  processor.name = "process_file" =>
    LET f == processor.file
        named == f.ext \in C21_SupportedAnyCase
    IN /\ (~f.exists \/ ~named)
            => /\ processor.ret = "none"
               /\ processor.extractor = "none"
               /\ processor.reads = <<>>
       /\ (f.exists /\ named) => processor.extractor # "none"
       /\ (f.exists /\ f.ext = <<".", "P", "D", "F">>)
            => processor.extractor = "pdf"

\* C21 witness: a path that does not exist, named with a supported
\* extension, answered with None without the text extractor opening it
C21_Witness ==
  /\ processor.name = "process_file"
  /\ ~processor.file.exists
  /\ processor.file.ext = <<".", "t", "x", "t">>
  /\ processor.file.primary = "ok"
  /\ processor.ret = "none"
  /\ processor.reads = <<>>

\* C22: extract_text_from_txt reads the file as UTF-8 first and, on a
\* decode failure, as latin-1, returning that content; every failure of the
\* method, decode or otherwise, in the primary or in the fallback read, is
\* reported as None and never as a raised exception.
C22_TxtFailureIsNone ==
  (processor.name = "process_file" /\ processor.extractor = "txt") =>
    LET f == processor.file
        decoded == f.primary = "decode_error" /\ f.fallback = "ok"
    IN /\ processor.reads[1] = "utf-8"
       /\ f.primary = "ok" => processor.ret = f.content
       /\ decoded => /\ processor.reads = <<"utf-8", "latin-1">>
                     /\ processor.ret = f.content
       /\ processor.ret # "raise"
       /\ (f.primary # "ok" /\ ~decoded) => processor.ret = "none"

\* C23: generate waits min(2^attempt, 5) seconds before every retry, attempt
\* being the 0-based number of the attempt that just failed, and does not
\* wait after the final attempt (nor after the attempt that succeeded).
C23_WaitsBeforeEveryRetry ==
  \A i \in 1..Len(generator.outcomes) :
    generator.waits[i] =
      IF generator.outcomes[i] # "text" /\ i < generator.max_retries
      THEN Min(2 ^ (i - 1), 5)
      ELSE 0

\* what holds of a generate call at every moment: generate_content has been
\* called once per attempt and at most max_retries times, no attempt follows
\* one that yielded a validated response, and what the call returns is one
\* of generate's strings, never an exception
C25_BoundedAndQuiet ==
  generator.name # "none" =>
    /\ generator.calls = Len(generator.outcomes)
    /\ generator.calls <= generator.max_retries
    /\ \A i \in 1..Len(generator.outcomes) :
         generator.outcomes[i] = "text"
           => /\ i = Len(generator.outcomes)
              /\ generator.name = "returned"
              /\ generator.ret = "answer"
    /\ generator.name = "returned" => generator.ret \in GenerateOutcomes

\* C25: for every max_retries >= 0 and every behaviour of the model (each
\* attempt raises, yields no text or yields text) generate terminates,
\* calls generate_content at most max_retries times, stops after the first
\* attempt that yields a validated response and returns a string, no
\* exception raised inside an attempt leaving the call.
C25_GenerateTerminates ==
  /\ []C25_BoundedAndQuiet
  /\ <>(generator.name = "returned")

\* C25 witness: a call with max_retries above the default whose first
\* attempt raised, whose second yielded no text, whose third yielded the
\* response, and which returned it after three generate_content calls
C25_Witness ==
  /\ generator.name = "returned"
  /\ generator.max_retries > 3
  /\ generator.outcomes = <<"raise", "empty", "text">>
  /\ generator.calls = 3
  /\ generator.ret = "answer"

\* C28: when every attempt has been used up (max_retries attempts made,
\* none yielding a response) generate returns the system-error message
\* exactly when the final attempt raised, and the temporarily-unavailable
\* message exactly when the final attempt yielded no text or max_retries is
\* 0, whatever the earlier attempts did.
C28_MessageFollowsFinalAttempt ==
  (/\ generator.name = "returned"
   /\ \A i \in 1..Len(generator.outcomes) : generator.outcomes[i] # "text")
  => LET n == generator.max_retries
     IN /\ Len(generator.outcomes) = n
        /\ generator.ret = "system_error"
             <=> (n > 0 /\ generator.outcomes[n] = "raise")
        /\ generator.ret = "unavailable"
             <=> (n = 0 \/ generator.outcomes[n] = "empty")

\* C28 witness: a call of as many attempts as a call can have, all but the
\* last of which raised and the last of which yielded no text, answered
\* with the temporarily-unavailable message
C28_Witness ==
  /\ generator.name = "returned"
  /\ generator.max_retries = MaxRetries
  /\ Len(generator.outcomes) = MaxRetries
  /\ \A i \in 1..(MaxRetries - 1) : generator.outcomes[i] = "raise"
  /\ generator.outcomes[MaxRetries] = "empty"
  /\ generator.ret = "unavailable"

====
